---- MODULE Spec2Model ----
(***************************************************************************)
(* A model of nts-radio-cli (src/nts/cli.py, with the older script         *)
(* src/nts-cli.py): one command invocation as a state machine, and the     *)
(* pure helpers (title and time formatting, schedule projection) as        *)
(* operators.                                                              *)
(*                                                                         *)
(* Text is a sequence of one-character strings, so that decoding, case     *)
(* folding and substring search are computed, not assumed.                 *)
(***************************************************************************)
EXTENDS Integers, Sequences, FiniteSets, TLC

VARIABLES
    raw_title,   \* SpecTitle: the raw title handed to format_show_title
    display,     \* SpecTitle: what format_show_title returned (NotYet before)
    start_timestamp, \* SpecTime: the start handed to format_time_range
    end_timestamp,   \* SpecTime: the end handed to format_time_range
    time_range,  \* SpecTime: what format_time_range returned (NotYet before)
    tz,          \* the local time zone of the process
    channel,     \* SpecProject: the channel document being projected
    compact,     \* SpecProject: entries of the "now" panel (NotYet before)
    full,        \* SpecProject: rows of the schedule table (NotYet before)
    legacy,      \* SpecProject: rows of the old script's schedule table
    pc,          \* Spec: position of the command invocation
    cmd,         \* Spec: the command invoked
    opts,        \* Spec: its parsed arguments and options
    response,    \* Spec: what the upstream GET produced
    data,        \* Spec: the document the command holds after the fetch
    output,      \* Spec: what the command printed, in order
    launches,    \* Spec: number of player launches
    last_url,    \* Spec: the stream URL of the last launch
    last_pick,   \* Spec: index in the catalog of the entry last acted on
    gets,        \* Spec: number of network GETs issued
    exit_code,   \* Spec: the process exit code (NoExit while running)
    exc,         \* Spec: the exception that escaped the command
    interrupted, \* Spec: an interrupt signal has arrived
    player       \* Spec: how the last run of the player went (None before)

vars == <<raw_title, display, start_timestamp, end_timestamp, time_range, tz,
          channel, compact, full, legacy, pc, cmd, opts, response, data, output,
          launches, last_url, last_pick, gets, exit_code, exc, interrupted, player>>

titleVars == <<raw_title, display>>
timeVars  == <<start_timestamp, end_timestamp, time_range, tz>>
projVars  == <<channel, compact, full, legacy>>
cmdVars   == <<pc, cmd, opts, response, data, output, launches, last_url,
               last_pick, gets, exit_code, exc, interrupted, player>>

\* Python's None: as a name or a code, and as a document, text or list.
None == "None"
Nil == [nil |-> TRUE]
\* A text or a list of rows not computed yet (none of them is ever empty).
NotYet == <<>>

(***************************************************************************)
(* Bounds of the model.                                                    *)
(***************************************************************************)
MaxChunks == 3      \* a raw title is at most this many chunks of text
MaxSlots == 19      \* next-slots a channel document may carry
MaxCatalog == 2     \* entries of a mixtape catalog
MaxLaunches == 2    \* player launches followed in the random loop
MaxChannels == 3    \* channels of a broadcast document

(***************************************************************************)
(* Text helpers.                                                           *)
(***************************************************************************)
\* Python's `sub in s` for strings.
Contains(s, sub) ==
    \E i \in 0..(Len(s) - Len(sub)) : SubSeq(s, i + 1, i + Len(sub)) = sub

Count(s, c) == Cardinality({i \in 1..Len(s) : s[i] = c})

IsPrefix(p, s) == Len(p) <= Len(s) /\ SubSeq(s, 1, Len(p)) = p

(***************************************************************************)
(* Title formatting: format_show_title and html.unescape.                  *)
(***************************************************************************)
LIVE_INDICATOR == <<"U+1F534">>
REPLAY_MARK == <<"(", "R", ")">>

Digits == {"0", "1", "4"}
\* Characters that end a named character reference: the class
\* [^\t\n\f <&#;] of html.unescape's pattern, complemented.
NameStop == {" ", "<", "&", "#", ";"}

\* The named references of the html5 table the titles can spell, with and
\* without the closing semicolon (both forms are in the table).
Html5Has(name) ==
    name \in {<<"a", "m", "p">>, <<"a", "m", "p", ";">>,
              <<"l", "t">>, <<"l", "t", ";">>}
Html5(name) == IF name[1] = "a" THEN <<"&">> ELSE <<"<">>

\* chr(num) for the decimal references the titles can spell.
Chr(digits) ==
    IF digits = <<"4", "0">> THEN <<"(">>
    ELSE IF digits = <<"4", "1">> THEN <<")">>
    ELSE <<"U+FFFD">>

\* Index of the last character of the longest run of characters of `s`
\* from index i on that satisfy Ok (i - 1 when there is none).
RECURSIVE RunEnd(_, _, _)
RunEnd(s, i, stop) ==
    IF i > Len(s) \/ s[i] \in stop THEN i - 1 ELSE RunEnd(s, i + 1, stop)

RECURSIVE DigitEnd(_, _)
DigitEnd(s, i) ==
    IF i > Len(s) \/ s[i] \notin Digits THEN i - 1 ELSE DigitEnd(s, i + 1)

WithSemi(s, e) == IF e < Len(s) /\ s[e + 1] = ";" THEN e + 1 ELSE e

\* The match of html.unescape's pattern at the "&" at index i: the index of
\* its last character, or i when the "&" starts no reference.
CharrefEnd(s, i) ==
    IF i < Len(s) /\ s[i + 1] = "#"
    THEN LET d == DigitEnd(s, i + 2)
         IN  IF d >= i + 2 THEN WithSemi(s, d) ELSE i
    ELSE LET n == RunEnd(s, i + 1, NameStop)
             m == IF n > i + 32 THEN i + 32 ELSE n
         IN  IF m >= i + 1 THEN WithSemi(s, m) ELSE i

StripSemi(s) == IF s # <<>> /\ s[Len(s)] = ";" THEN SubSeq(s, 1, Len(s) - 1) ELSE s

\* The longest proper prefix of a name (of length 2 or more) that the table
\* has, then the rest of the name; "&" and the name when there is none.
RECURSIVE LongestName(_, _)
LongestName(s, x) ==
    IF x < 2 THEN <<"&">> \o s
    ELSE IF Html5Has(SubSeq(s, 1, x)) THEN Html5(s) \o SubSeq(s, x + 1, Len(s))
    ELSE LongestName(s, x - 1)

\* _replace_charref: the replacement of one match (without its "&").
ReplaceCharref(s) ==
    IF s[1] = "#" THEN Chr(StripSemi(SubSeq(s, 2, Len(s))))
    ELSE IF Html5Has(s) THEN Html5(s)
    ELSE LongestName(s, Len(s) - 1)

\* html.unescape: one pass, left to right; replacements are not rescanned.
RECURSIVE UnescapeFrom(_, _)
UnescapeFrom(s, i) ==
    IF i > Len(s) THEN <<>>
    ELSE IF s[i] # "&" THEN <<s[i]>> \o UnescapeFrom(s, i + 1)
    ELSE LET e == CharrefEnd(s, i)
         IN  IF e = i THEN <<"&">> \o UnescapeFrom(s, i + 1)
             ELSE ReplaceCharref(SubSeq(s, i + 1, e)) \o UnescapeFrom(s, e + 1)

unescape(s) == UnescapeFrom(s, 1)

\* A slip: the replay marker is looked for in the raw title.
format_show_title_raw_check(title) ==
    IF Contains(title, REPLAY_MARK) THEN unescape(title)
    ELSE unescape(title) \o <<" ">> \o LIVE_INDICATOR

format_show_title(title) ==
    LET t == unescape(title)
    IN  IF Contains(t, REPLAY_MARK) THEN t ELSE t \o <<" ">> \o LIVE_INDICATOR

\* The pieces raw titles are made of: plain text, the replay marker's
\* characters, and escaped forms of them.
Chunks ==
    { <<"a">>, <<" ">>, <<"(">>, <<"R">>, <<")">>, <<"(", "R", ")">>,
      <<"&">>, <<";">>, <<"a", "m", "p">>, <<"&", "a", "m", "p", ";">>,
      <<"l", "t">>, <<"#", "4", "0">>, <<"&", "#", "4", "0", ";">>,
      <<"&", "#", "4", "1", ";">>, <<"U+1F534">> }

RECURSIVE ChunkSeqs(_)
ChunkSeqs(n) ==
    IF n = 0 THEN {<<>>}
    ELSE LET shorter == ChunkSeqs(n - 1)
         IN  shorter \cup {t \o c : t \in shorter, c \in Chunks}

RawTitles == ChunkSeqs(MaxChunks)

(***************************************************************************)
(* Time formatting: format_time and format_time_range.                     *)
(*                                                                         *)
(* A timestamp is the text "YYYY-MM-DDTHH:MM:SSZ".  A datetime is a record *)
(* of its fields; the instant it denotes is counted in minutes from the    *)
(* start of its month (the seconds do not reach the output).               *)
(***************************************************************************)
DIGITS == <<"0", "1", "2", "3", "4", "5", "6", "7", "8", "9">>
DigitChar(d) == DIGITS[d + 1]
DigitVal(c) == CHOOSE d \in 0..9 : DIGITS[d + 1] = c

\* int() of a run of decimal digits.
RECURSIVE Number(_)
Number(s) ==
    IF s = <<>> THEN 0
    ELSE Number(SubSeq(s, 1, Len(s) - 1)) * 10 + DigitVal(s[Len(s)])

\* str() of a natural number.
RECURSIVE Decimal(_)
Decimal(n) ==
    IF n < 10 THEN <<DigitChar(n)>>
    ELSE Append(Decimal(n \div 10), DigitChar(n % 10))

\* "%02d": at least two digits, padded with a zero.
Pad2(n) == IF n < 10 THEN <<"0">> \o Decimal(n) ELSE Decimal(n)

\* str.replace(old, new) for a one-character old.
RECURSIVE replace(_, _, _)
replace(s, old, new) ==
    IF s = <<>> THEN <<>>
    ELSE (IF Head(s) = old THEN new ELSE <<Head(s)>>) \o replace(Tail(s), old, new)

UTC_SUFFIX == <<"+", "0", "0", ":", "0", "0">>

\* datetime.fromisoformat on "YYYY-MM-DDTHH:MM:SS+HH:MM".
fromisoformat(s) ==
    [year |-> Number(SubSeq(s, 1, 4)),
     month |-> Number(SubSeq(s, 6, 7)),
     day |-> Number(SubSeq(s, 9, 10)),
     hour |-> Number(SubSeq(s, 12, 13)),
     minute |-> Number(SubSeq(s, 15, 16)),
     second |-> Number(SubSeq(s, 18, 19)),
     utcoffset |-> (IF s[20] = "-" THEN 0 - 1 ELSE 1)
                   * (Number(SubSeq(s, 21, 22)) * 60 + Number(SubSeq(s, 24, 25)))]

\* The UTC instant of an aware datetime, in minutes from the start of its month.
Instant(dt) == (dt.day * 24 + dt.hour) * 60 + dt.minute - dt.utcoffset

\* The offset from UTC, in minutes, that a zone has at a UTC instant: its
\* standard offset, and one hour more from the start of its summer time on.
UtcOffset(zone, utc) == zone.utcoffset + (IF utc >= zone.dst_from THEN 60 ELSE 0)

\* datetime.astimezone() with no argument: the same instant on the clock of
\* the system's local zone.
astimezone(dt) ==
    LET utc == Instant(dt)
        off == UtcOffset(tz, utc)
        local == utc + off
    IN  [dt EXCEPT !.day = local \div (24 * 60),
                   !.hour = (local % (24 * 60)) \div 60,
                   !.minute = local % 60,
                   !.utcoffset = off]

\* strftime("%H:%M") without the zero padding.
strftime_unpadded(dt) == Decimal(dt.hour) \o <<":">> \o Decimal(dt.minute)

\* strftime("%H:%M").
strftime(dt) == Pad2(dt.hour) \o <<":">> \o Pad2(dt.minute)

format_time(timestamp) ==
    LET utc_time == fromisoformat(replace(timestamp, "Z", UTC_SUFFIX))
        local_time == astimezone(utc_time)
    IN  strftime(local_time)

format_time_range(show) ==
    format_time(show.start_timestamp) \o <<" ", "-", " ">>
        \o format_time(show.end_timestamp)

\* The text of the UTC timestamp of an instant of the month (March 2024).
Timestamp(t) ==
    <<"2", "0", "2", "4", "-", "0", "3", "-">> \o Pad2(t \div (24 * 60))
        \o <<"T">> \o Pad2((t % (24 * 60)) \div 60) \o <<":">> \o Pad2(t % 60)
        \o <<":", "0", "0", "Z">>

\* A zone that has no summer time in the month: it would start after it.
NoDst == 32 * 24 * 60
UTC == [utcoffset |-> 0, dst_from |-> NoDst]

(***************************************************************************)
(* SpecTitle: format_show_title applied to every raw title.                *)
(***************************************************************************)
TitleIdle == /\ raw_title = <<>>
             /\ display = NotYet

\* No time range asked for; the process runs on UTC.
TimeIdle == /\ start_timestamp = <<>>
            /\ end_timestamp = <<>>
            /\ time_range = NotYet
            /\ tz = UTC

ProjIdle == /\ channel = Nil
            /\ compact = NotYet
            /\ full = NotYet
            /\ legacy = NotYet

NoExit == 0 - 1

\* The options of a command that was given none.
NoOpts == [channel |-> None, play |-> <<>>, play_given |-> FALSE, info |-> <<>>,
           info_given |-> FALSE, url |-> FALSE, random |-> FALSE, art |-> FALSE]

CmdIdle == /\ pc = "idle"
           /\ cmd = None
           /\ opts = NoOpts
           /\ response = Nil
           /\ data = Nil
           /\ output = <<>>
           /\ launches = 0
           /\ last_url = None
           /\ last_pick = 0
           /\ gets = 0
           /\ exit_code = NoExit
           /\ exc = None
           /\ interrupted = FALSE
           /\ player = None

InitTitle == /\ raw_title \in RawTitles
             /\ display = NotYet
             /\ TimeIdle
             /\ ProjIdle
             /\ CmdIdle

FormatShowTitle ==
    /\ display = NotYet
    /\ display' = format_show_title(raw_title)
    /\ UNCHANGED <<raw_title, timeVars, projVars, cmdVars>>

NextTitle == FormatShowTitle

SpecTitle == InitTitle /\ [][NextTitle]_vars

(***************************************************************************)
(* SpecTime: format_time_range applied to pairs of UTC timestamps, in      *)
(* local zones of whole-hour and fractional offsets, with and without a    *)
(* change to summer time between the two instants.                         *)
(***************************************************************************)
\* Offsets from UTC in minutes: -12:00, -03:30, 00:00, +01:00, +05:45, +14:00.
Offsets == {0 - 720, 0 - 210, 0, 60, 345, 840}

\* Summer time starting on the 14th at 15:30 UTC.
DstStart == (14 * 24 + 15) * 60 + 30

TimeZones == {[utcoffset |-> o, dst_from |-> d] : o \in Offsets, d \in {NoDst, DstStart}}

\* Every minute of the 14th.
StartInstants == {14 * 24 * 60 + m : m \in 0..(24 * 60 - 1)}

\* From start to end: half an hour back, nothing, two hours, a minute less
\* than a day.
Durations == {0 - 30, 0, 120, 24 * 60 - 1}

InitTime == /\ \E t \in StartInstants, d \in Durations :
                  /\ start_timestamp = Timestamp(t)
                  /\ end_timestamp = Timestamp(t + d)
            /\ tz \in TimeZones
            /\ time_range = NotYet
            /\ TitleIdle
            /\ ProjIdle
            /\ CmdIdle

FormatTimeRange ==
    /\ time_range = NotYet
    /\ time_range' = format_time_range([start_timestamp |-> start_timestamp,
                                        end_timestamp |-> end_timestamp])
    /\ UNCHANGED <<start_timestamp, end_timestamp, tz, titleVars, projVars, cmdVars>>

NextTime == FormatTimeRange

SpecTime == InitTime /\ [][NextTime]_vars

(***************************************************************************)
(* Schedule projection: the "now" panel (create_show_panel with            *)
(* create_upcoming_table) and the schedule table (schedule).               *)
(***************************************************************************)
COMPACT_SLOTS == 5      \* for i in range(1, 6)
SCHEDULE_SLOTS == 17    \* for i in range(1, 18)

\* channel.get("next<i>") of a slot that is absent (or null, or empty): the
\* loops skip it.
Missing == Nil

Get(ch, i) == IF i \in DOMAIN ch.next THEN ch.next[i] ELSE Missing

Present(ch) == {i \in DOMAIN ch.next : ch.next[i] # Missing}

\* One displayed line: the slot it came from (0 is the current show), the
\* time range and the title as displayed.
Entry(i, show) ==
    [slot |-> i, time |-> format_time_range(show),
     title |-> format_show_title(show.broadcast_title)]

\* A slip: a slot that repeats an earlier slot's show is left out.
RECURSIVE UpcomingRows_dedup(_, _, _)
UpcomingRows_dedup(ch, i, last) ==
    IF i > last THEN <<>>
    ELSE (IF Get(ch, i) # Missing /\ \A j \in 1..(i - 1) : Get(ch, j) # Get(ch, i)
          THEN <<Entry(i, Get(ch, i))>> ELSE <<>>)
         \o UpcomingRows_dedup(ch, i + 1, last)

\* for i in range(first, last + 1): next_show = channel.get(...); if next_show: ...
RECURSIVE UpcomingRows(_, _, _)
UpcomingRows(ch, i, last) ==
    IF i > last THEN <<>>
    ELSE (IF Get(ch, i) # Missing THEN <<Entry(i, Get(ch, i))>> ELSE <<>>)
         \o UpcomingRows(ch, i + 1, last)

\* A slip: range(1, 7).
create_upcoming_table_six(ch) == UpcomingRows(ch, 1, COMPACT_SLOTS + 1)

create_upcoming_table(ch) == UpcomingRows(ch, 1, COMPACT_SLOTS)

\* The lines of one channel's panel: the current show, then the upcoming table.
create_show_panel(show, ch) == <<Entry(0, show)>> \o create_upcoming_table(ch)

\* A slip: the schedule reuses the panel's five-slot loop.
schedule_rows_five(ch) == <<Entry(0, ch.now)>> \o UpcomingRows(ch, 1, COMPACT_SLOTS)

\* The rows of one channel's schedule table.
schedule_rows(ch) == <<Entry(0, ch.now)>> \o UpcomingRows(ch, 1, SCHEDULE_SLOTS)

\* The old script's schedule table: raw titles and a Type column.
LegacyRow(i, show, type) ==
    [slot |-> i, time |-> format_time_range(show), title |-> show.broadcast_title,
     type |-> type]

RECURSIVE LegacyUpcomingRows(_, _, _)
LegacyUpcomingRows(ch, i, last) ==
    IF i > last THEN <<>>
    ELSE (IF Get(ch, i) # Missing
          THEN <<LegacyRow(i, Get(ch, i),
                           IF Contains(Get(ch, i).broadcast_title, REPLAY_MARK)
                           THEN "REPLAY" ELSE "LIVE")>>
          ELSE <<>>)
         \o LegacyUpcomingRows(ch, i + 1, last)

legacy_schedule_rows(ch) ==
    <<LegacyRow(0, ch.now, "LIVE")>> \o LegacyUpcomingRows(ch, 1, SCHEDULE_SLOTS)

\* The raw titles the channel documents use: a live show, a replay, a live
\* show with an escaped ampersand, and a replay whose marker is escaped.
TitlePool ==
    << <<"a">>,
       <<"a", " ", "(", "R", ")">>,
       <<"a", "&", "a", "m", "p", ";", "a">>,
       <<"&", "#", "4", "0", ";", "R", ")">> >>

\* The current show starts on the 14th at 15:00 UTC; a show lasts two hours.
NowStart == (14 * 24 + 15) * 60
ShowLength == 2 * 60

\* The start of slot i (0 is the current show) in a timetable: "chrono" has
\* the slots one after the other as upstream sends them, "reversed" has them
\* backwards in time, and "repeat" sends the same four starts over and over,
\* so that slots repeat earlier ones and a slot starts before its predecessor.
SlotStart(times, i) ==
    IF times = "chrono" THEN NowStart + i * ShowLength
    ELSE IF times = "reversed" THEN NowStart - i * ShowLength
    ELSE NowStart + (i % Len(TitlePool)) * ShowLength

Timetables == {"chrono", "reversed", "repeat"}

Show(title, art, from) ==
    [broadcast_title |-> title, background_small |-> art,
     start_timestamp |-> Timestamp(from),
     end_timestamp |-> Timestamp(from + ShowLength)]

\* The channel documents: next1..nextK present except for at most one gap,
\* the titles taken from the pool in turn starting at any place.
ChannelDoc(k, gap, rot, art, times) ==
    [now  |-> Show(TitlePool[rot + 1], art, SlotStart(times, 0)),
     next |-> [i \in 1..MaxSlots |->
                 IF i <= k /\ i # gap
                 THEN Show(TitlePool[((i + rot) % Len(TitlePool)) + 1], FALSE,
                           SlotStart(times, i))
                 ELSE Missing]]

\* Every shape of document on the usual timetable, and the longest documents
\* on every timetable.
Channels ==
    {ChannelDoc(k, gap, rot, FALSE, "chrono") :
        k \in 0..MaxSlots, gap \in 0..MaxSlots, rot \in 0..(Len(TitlePool) - 1)}
    \cup
    {ChannelDoc(MaxSlots, gap, rot, FALSE, times) :
        gap \in {0, COMPACT_SLOTS}, rot \in 0..(Len(TitlePool) - 1),
        times \in Timetables}

\* The local zones the projections are computed in: UTC and +05:45.
ProjectZones == {UTC, [utcoffset |-> 345, dst_from |-> NoDst]}

InitProject == /\ channel \in Channels
               /\ compact = NotYet
               /\ full = NotYet
               /\ legacy = NotYet
               /\ start_timestamp = <<>>
               /\ end_timestamp = <<>>
               /\ time_range = NotYet
               /\ tz \in ProjectZones
               /\ TitleIdle
               /\ CmdIdle

\* now: the panel of one channel.
CreateShowPanel ==
    /\ compact = NotYet
    /\ compact' = create_show_panel(channel.now, channel)
    /\ UNCHANGED <<channel, full, legacy, titleVars, timeVars, cmdVars>>

\* schedule: the table of one channel.
Schedule ==
    /\ full = NotYet
    /\ full' = schedule_rows(channel)
    /\ UNCHANGED <<channel, compact, legacy, titleVars, timeVars, cmdVars>>

\* schedule of the old script.
LegacySchedule ==
    /\ legacy = NotYet
    /\ legacy' = legacy_schedule_rows(channel)
    /\ UNCHANGED <<channel, compact, full, titleVars, timeVars, cmdVars>>

NextProject == CreateShowPanel \/ Schedule \/ LegacySchedule

SpecProject == InitProject /\ [][NextProject]_vars

(***************************************************************************)
(* One command invocation: the upstream, the documents, the messages.      *)
(***************************************************************************)
STREAM_URL_1 == "https://stream-relay-geo.ntslive.net/stream"
STREAM_URL_2 == "https://stream-relay-geo.ntslive.net/stream2"

\* A slip: both channels on the first stream.
STREAM_URLS_same(channel_sel) == STREAM_URL_1

STREAM_URLS(channel_sel) == IF channel_sel = "1" THEN STREAM_URL_1 ELSE STREAM_URL_2

\* click.Choice(["1", "2"]): the selectors the argument parser lets through.
ChoiceAccepts(channel_sel) == channel_sel \in {"1", "2"}

Selectors == {"1", "2", "3", "0", "one"}

NETWORK_ERROR == "Network error: Could not connect to the NTS API"
NO_DATA == "No data received from API"
INVALID_FORMAT == "Invalid data format received from API"
NOT_FOUND == "Mixtape not found"
MPV_NOT_FOUND == "mpv not found. Please ensure mpv is installed."
PLAYER_NOT_FOUND == "not found. Please ensure the media player is installed."
PLAY_FAILED == "Error playing stream"
USAGE == "Usage error: invalid choice"
ABORTED == "Aborted!"

\* One thing the command wrote: its kind, its text (a message or a URL), the
\* catalog entry it is about (0 when none) and the rows it shows.
Item(kind, text, ref, rows) == [kind |-> kind, text |-> text, ref |-> ref, rows |-> rows]
ErrorItem(text) == Item("error", text, 0, <<>>)

\* A JSON document as the commands read it: whether it has a "results"
\* field, whether Python takes it as true (it is not {}, [] or null), and
\* the results.
Doc(has_results, truthy, results) ==
    [has_results |-> has_results, truthy |-> truthy, results |-> results]
InvalidDoc == Doc(FALSE, TRUE, <<>>)    \* such as {"invalid": "data"}
EmptyDoc == Doc(FALSE, FALSE, <<>>)     \* {}

RECURSIVE SeqsUpTo(_, _)
SeqsUpTo(S, n) ==
    IF n = 0 THEN {<<>>}
    ELSE LET shorter == SeqsUpTo(S, n - 1)
         IN  shorter \cup {Append(q, x) : q \in shorter, x \in S}

\* Broadcast documents: up to MaxChannels channels.
SmallChannels == {ChannelDoc(0, 0, 0, FALSE, "chrono"), ChannelDoc(6, 0, 1, TRUE, "chrono")}
LiveDocs ==
    {Doc(TRUE, TRUE, r) : r \in SeqsUpTo(SmallChannels, MaxChannels)}
        \cup {InvalidDoc, EmptyDoc}

\* Mixtape catalogs: up to MaxCatalog entries; two aliases differ only in
\* case, and a title equals another entry's alias.
Mixtape(alias, title, endpoint) ==
    [mixtape_alias |-> alias, title |-> title, audio_stream_endpoint |-> endpoint]
EntryPool ==
    { Mixtape(<<"p", "s">>, <<"P", "q">>, "stream-1"),
      Mixtape(<<"P", "S">>, <<"q">>, "stream-2"),
      Mixtape(<<"q">>, <<"p", "s">>, "stream-3") }
CatalogDocs ==
    {Doc(TRUE, TRUE, r) : r \in SeqsUpTo(EntryPool, MaxCatalog)}
        \cup {InvalidDoc, EmptyDoc}

\* The names given to --play and to --info.  An option left out is None in
\* the command, and <<>> here, as is the empty name: the command tests
\* `if play:`, which takes the two alike.
Names == {<<>>, <<"P", "S">>, <<"Q">>, <<"z">>}

\* What one GET produces.  A connectivity failure raises
\* requests.exceptions.ConnectionError.  Otherwise there is a response, with
\* an HTTP status requests.get does not look at, and a body that parses as
\* JSON or does not; response.json() then raises a JSONDecodeError that is a
\* RequestException in requests 2.27 and later and a plain ValueError before.
Response(kind, status, parses, json_error, doc) ==
    [kind |-> kind, status |-> status, parses |-> parses,
     json_error |-> json_error, doc |-> doc]
ConnectionFailure == Response("conn_error", "none", FALSE, "none", Nil)
Responses(docs) ==
    {ConnectionFailure}
        \cup {Response("body", st, TRUE, "none", d) : st \in {"ok", "http_error"}, d \in docs}
        \cup {Response("body", st, FALSE, je, Nil) :
                 st \in {"ok", "http_error"}, je \in {"RequestException", "ValueError"}}

\* The result of a fetch: the exception it raised (None when none), or the
\* pair (data, error) it returned.
Fetched(raised, d, error) == [raised |-> raised, data |-> d, error |-> error]

\* get_nts_data: the GET, response.json(), and the except clause for
\* ConnectionError and RequestException.
get_nts_data(resp) ==
    IF resp.kind = "conn_error" THEN Fetched(None, Nil, NETWORK_ERROR)
    ELSE IF ~resp.parses
    THEN IF resp.json_error = "RequestException"
         THEN Fetched(None, Nil, NETWORK_ERROR)
         ELSE Fetched("JSONDecodeError", Nil, None)
    ELSE Fetched(None, resp.doc, None)

\* get_mixtapes_data: the same, against the mixtape endpoint.
get_mixtapes_data(resp) ==
    IF resp.kind = "conn_error" THEN Fetched(None, Nil, NETWORK_ERROR)
    ELSE IF ~resp.parses
    THEN IF resp.json_error = "RequestException"
         THEN Fetched(None, Nil, NETWORK_ERROR)
         ELSE Fetched("JSONDecodeError", Nil, None)
    ELSE Fetched(None, resp.doc, None)

\* Python's truth of what a fetch returned: None and empty documents are false.
Truthy(d) == d # Nil /\ d.truthy

\* str.lower() on the letters the names use.
LowerChar(c) ==
    IF c = "P" THEN "p" ELSE IF c = "S" THEN "s" ELSE IF c = "Q" THEN "q"
    ELSE IF c = "Z" THEN "z" ELSE c
lower(s) == [i \in 1..Len(s) |-> LowerChar(s[i])]

\* The test of the --info and --play loops.
NameMatches(mixtape, name) ==
    \/ lower(mixtape.mixtape_alias) = lower(name)
    \/ lower(mixtape.title) = lower(name)

\* A slip: only the alias is compared.
FirstMatch_alias_only(results, name) ==
    LET hits == {i \in 1..Len(results) :
                    lower(results[i].mixtape_alias) = lower(name)}
    IN  IF hits = {} THEN 0 ELSE CHOOSE i \in hits : \A j \in hits : i <= j

\* for mixtape in data["results"]: if <match>: ... return -- the index of
\* the entry the loop stops at, 0 when it runs to its end.
FirstMatch(results, name) ==
    LET hits == {i \in 1..Len(results) : NameMatches(results[i], name)}
    IN  IF hits = {} THEN 0 ELSE CHOOSE i \in hits : \A j \in hits : i <= j

\* The command ends: its exit code, what it has printed, what escaped it.
Finish(code, out, e) ==
    /\ pc' = "done"
    /\ exit_code' = code
    /\ output' = out
    /\ exc' = e

\* An exception no handler of the command catches: a traceback, exit 1.
Crash(e) == Finish(1, output, e)

(***************************************************************************)
(* Spec: the commands.                                                     *)
(***************************************************************************)
Init == /\ TitleIdle
        /\ TimeIdle
        /\ ProjIdle
        /\ CmdIdle

Idle == pc = "idle"

\* now [--art]
InvokeNow ==
    /\ Idle
    /\ \E art \in BOOLEAN : opts' = [opts EXCEPT !.art = art]
    /\ cmd' = "now"
    /\ pc' = "fetch_live"
    /\ UNCHANGED <<response, data, output, launches, last_url, last_pick, gets,
                   exit_code, exc, interrupted, player, titleVars, timeVars, projVars>>

\* schedule
InvokeSchedule ==
    /\ Idle
    /\ cmd' = "schedule"
    /\ pc' = "fetch_live"
    /\ UNCHANGED <<opts, response, data, output, launches, last_url, last_pick,
                   gets, exit_code, exc, interrupted, player, titleVars, timeVars, projVars>>

\* json
InvokeJson ==
    /\ Idle
    /\ cmd' = "json"
    /\ pc' = "fetch_live"
    /\ UNCHANGED <<opts, response, data, output, launches, last_url, last_pick,
                   gets, exit_code, exc, interrupted, player, titleVars, timeVars, projVars>>

\* info: the static panel.
InvokeInfo ==
    /\ Idle
    /\ cmd' = "info"
    /\ Finish(0, <<Item("panel", "NTS RADIO INFO", 0, <<>>)>>, None)
    /\ UNCHANGED <<opts, response, data, launches, last_url, last_pick, gets,
                   interrupted, player, titleVars, timeVars, projVars>>

\* stream-url CHANNEL
InvokeStreamUrl ==
    /\ Idle
    /\ cmd' = "stream_url"
    /\ \E sel \in Selectors :
          /\ opts' = [opts EXCEPT !.channel = sel]
          /\ IF ChoiceAccepts(sel)
             THEN Finish(0, <<Item("line", STREAM_URLS(sel), 0, <<>>)>>, None)
             ELSE Finish(2, <<Item("usage", USAGE, 0, <<>>)>>, None)
    /\ UNCHANGED <<response, data, launches, last_url, last_pick, gets,
                   interrupted, player, titleVars, timeVars, projVars>>

\* play CHANNEL: the argument check, then stream_url = STREAM_URLS[channel].
InvokePlay ==
    /\ Idle
    /\ cmd' = "play"
    /\ \E sel \in Selectors :
          /\ opts' = [opts EXCEPT !.channel = sel]
          /\ IF ChoiceAccepts(sel)
             THEN /\ pc' = "play_run"
                  /\ UNCHANGED <<output, exit_code, exc>>
             ELSE Finish(2, <<Item("usage", USAGE, 0, <<>>)>>, None)
    /\ UNCHANGED <<response, data, launches, last_url, last_pick, gets,
                   interrupted, player, titleVars, timeVars, projVars>>

PlayerOutcomes == {"ok", "missing", "failed"}

\* A slip: a failure of the player is not turned into sys.exit(1).
PlayerExitCode_swallow(outcome) == IF outcome = "missing" THEN 1 ELSE 0

\* The exit code after subprocess.run(..., check=True): the command returns
\* when it succeeded, and both handlers end in sys.exit(1).
PlayerExitCode(outcome) == IF outcome = "ok" THEN 0 ELSE 1

\* play: subprocess.run([player, url], check=True) and its handlers.
PlayRun ==
    /\ pc = "play_run"
    /\ \E outcome \in PlayerOutcomes :
          /\ player' = outcome
          /\ IF outcome = "missing"
             THEN /\ Finish(PlayerExitCode(outcome),
                            Append(output, ErrorItem(PLAYER_NOT_FOUND)), None)
                  /\ UNCHANGED <<launches, last_url>>
             ELSE /\ launches' = launches + 1
                  /\ last_url' = STREAM_URLS(opts.channel)
                  /\ IF outcome = "failed"
                     THEN Finish(PlayerExitCode(outcome),
                                 Append(output, ErrorItem(PLAY_FAILED)), None)
                     ELSE Finish(PlayerExitCode(outcome), output, None)
    /\ UNCHANGED <<cmd, opts, response, data, last_pick, gets, interrupted,
                   titleVars, timeVars, projVars>>

\* A slip: the error is not printed.
fetch_nts_data_with_status_silent(resp) ==
    LET r == get_nts_data(resp)
    IN  IF r.raised # None THEN [raised |-> r.raised, data |-> Nil, printed |-> <<>>]
        ELSE IF r.error # None THEN [raised |-> None, data |-> r.data, printed |-> <<>>]
        ELSE [raised |-> None, data |-> r.data, printed |-> <<>>]

\* fetch_nts_data_with_status: what it raises, returns and prints.
fetch_nts_data_with_status(resp) ==
    LET r == get_nts_data(resp)
    IN  IF r.raised # None THEN [raised |-> r.raised, data |-> Nil, printed |-> <<>>]
        ELSE IF r.error # None
        THEN [raised |-> None, data |-> Nil, printed |-> <<ErrorItem(r.error)>>]
        ELSE [raised |-> None, data |-> r.data, printed |-> <<>>]

\* now, schedule, json: data = fetch_nts_data_with_status(console), then
\* `if not data: return` (json: `if data:`).
FetchLive ==
    /\ pc = "fetch_live"
    /\ gets' = gets + 1
    /\ \E resp \in Responses(LiveDocs) :
          /\ response' = resp
          /\ LET f == fetch_nts_data_with_status(resp)
             IN  IF f.raised # None
                 THEN Crash(f.raised) /\ UNCHANGED data
                 ELSE IF ~Truthy(f.data)
                 THEN Finish(0, output \o f.printed, None) /\ UNCHANGED data
                 ELSE /\ data' = f.data
                      /\ pc' = "render"
                      /\ output' = output \o f.printed
                      /\ UNCHANGED <<exit_code, exc>>
    /\ UNCHANGED <<cmd, opts, launches, last_url, last_pick, interrupted,
                   player, titleVars, timeVars, projVars>>

\* The art fetch taken for every channel, with or without an art URL.
ArtFetches_every_channel(results, upto) ==
    Cardinality({i \in 1..Len(results) : i <= upto})

\* The channels whose panel asks for the show art: one GET each.
ArtFetches(results, upto) ==
    Cardinality({i \in 1..Len(results) : i <= upto /\ results[i].now.background_small})

\* now: the loop over data["results"] and console.print(layout).  The layout
\* has the two places "channel1" and "channel2".
RenderNow ==
    /\ pc = "render"
    /\ cmd = "now"
    /\ IF ~data.has_results
       THEN Crash("KeyError") /\ UNCHANGED gets
       ELSE IF Len(data.results) > 2
       THEN /\ Crash("KeyError")
            /\ gets' = gets + (IF opts.art THEN ArtFetches(data.results, 3) ELSE 0)
       ELSE /\ gets' = gets + (IF opts.art THEN ArtFetches(data.results, 2) ELSE 0)
            /\ Finish(0,
                      Append(output,
                             Item("layout", "", 0,
                                  [i \in 1..Len(data.results) |->
                                      create_show_panel(data.results[i].now,
                                                        data.results[i])])),
                      None)
    /\ UNCHANGED <<cmd, opts, response, data, launches, last_url, last_pick,
                   interrupted, player, titleVars, timeVars, projVars>>

\* schedule: a table and an empty line for every channel.
RenderSchedule ==
    /\ pc = "render"
    /\ cmd = "schedule"
    /\ IF ~data.has_results
       THEN Crash("KeyError")
       ELSE Finish(0,
                   output \o [j \in 1..(2 * Len(data.results)) |->
                                 IF j % 2 = 1
                                 THEN Item("table", "", 0,
                                           schedule_rows(data.results[(j + 1) \div 2]))
                                 ELSE Item("line", "", 0, <<>>)],
                   None)
    /\ UNCHANGED <<cmd, opts, response, data, launches, last_url, last_pick, gets,
                   interrupted, player, titleVars, timeVars, projVars>>

\* json: console.print_json(data=data).
RenderJson ==
    /\ pc = "render"
    /\ cmd = "json"
    /\ Finish(0, Append(output, Item("json", "", 0, data.results)), None)
    /\ UNCHANGED <<cmd, opts, response, data, launches, last_url, last_pick, gets,
                   interrupted, player, titleVars, timeVars, projVars>>

\* infinite [--play NAME] [--url] [--info NAME] [--random]
InvokeInfinite ==
    /\ Idle
    /\ cmd' = "infinite"
    /\ \E play \in Names, info \in Names, play_given \in BOOLEAN,
          info_given \in BOOLEAN, url \in BOOLEAN, random \in BOOLEAN :
          /\ play_given \/ play = <<>>
          /\ info_given \/ info = <<>>
          /\ opts' = [opts EXCEPT !.play = play, !.play_given = play_given,
                                  !.info = info, !.info_given = info_given,
                                  !.url = url, !.random = random]
    /\ pc' = "fetch_mixtapes"
    /\ UNCHANGED <<response, data, output, launches, last_url, last_pick, gets,
                   exit_code, exc, interrupted, player, titleVars, timeVars, projVars>>

\* infinite: `if random:` ... `if info:` ... `if play:` ..., else the listing.
Branch(o) ==
    IF o.random THEN "rand_pick"
    ELSE IF o.info # <<>> THEN "inf_info"
    ELSE IF o.play # <<>> THEN "inf_play"
    ELSE "inf_list"

\* infinite: data, error = get_mixtapes_data(), the two early returns, and
\* the choice of the branch.
FetchMixtapes ==
    /\ pc = "fetch_mixtapes"
    /\ gets' = gets + 1
    /\ \E resp \in Responses(CatalogDocs) :
          /\ response' = resp
          /\ LET f == get_mixtapes_data(resp)
             IN  IF f.raised # None
                 THEN Crash(f.raised) /\ UNCHANGED data
                 ELSE IF f.error # None
                 THEN Finish(0, Append(output, ErrorItem(f.error)), None)
                      /\ UNCHANGED data
                 ELSE IF ~Truthy(f.data)
                 THEN Finish(0, Append(output, ErrorItem(NO_DATA)), None)
                      /\ UNCHANGED data
                 ELSE /\ data' = f.data
                      /\ pc' = Branch(opts)
                      /\ UNCHANGED <<output, exit_code, exc>>
    /\ UNCHANGED <<cmd, opts, launches, last_url, last_pick, interrupted,
                   player, titleVars, timeVars, projVars>>

\* --random: mixtape = rand.choice(data["results"]).
RandPick ==
    /\ pc = "rand_pick"
    /\ IF ~data.has_results
       THEN Crash("KeyError") /\ UNCHANGED last_pick
       ELSE IF data.results = <<>>
       THEN Crash("IndexError") /\ UNCHANGED last_pick
       ELSE /\ \E i \in 1..Len(data.results) : last_pick' = i
            /\ pc' = "rand_print"
            /\ UNCHANGED <<output, exit_code, exc>>
    /\ UNCHANGED <<cmd, opts, response, data, launches, last_url, gets,
                   interrupted, player, titleVars, timeVars, projVars>>

\* --random: the "Playing" line, then subprocess.run starts mpv, or finds
\* no mpv (FileNotFoundError: a message and sys.exit(1)).
RandLaunch ==
    /\ pc = "rand_print"
    /\ LET playing == Item("playing", "Playing", last_pick, <<>>)
       IN  \E found \in BOOLEAN :
              IF found
              THEN /\ output' = Append(output, playing)
                   /\ player' = "running"
                   /\ launches' = launches + 1
                   /\ last_url' = data.results[last_pick].audio_stream_endpoint
                   /\ pc' = "rand_run"
                   /\ UNCHANGED <<exit_code, exc>>
              ELSE /\ Finish(1, output \o <<playing, ErrorItem(MPV_NOT_FOUND)>>, None)
                   /\ player' = "missing"
                   /\ UNCHANGED <<launches, last_url>>
    /\ UNCHANGED <<cmd, opts, response, data, last_pick, gets, interrupted,
                   titleVars, timeVars, projVars>>

\* --random: mpv ends.  With status 0 subprocess.run returns and the loop
\* goes round; with another status it raises CalledProcessError, and the
\* handler is `continue`.
RandPlayerExit ==
    /\ pc = "rand_run"
    /\ \E ok \in BOOLEAN :
          /\ pc' = IF ok THEN "rand_back" ELSE "rand_except"
          /\ player' = IF ok THEN "ok" ELSE "failed"
    /\ UNCHANGED <<cmd, opts, response, data, output, launches, last_url,
                   last_pick, gets, exit_code, exc, interrupted, titleVars,
                   timeVars, projVars>>

\* --random: back to the head of `while True:`.
RandContinue ==
    /\ pc \in {"rand_back", "rand_except"}
    /\ launches < MaxLaunches
    /\ pc' = "rand_pick"
    /\ UNCHANGED <<cmd, opts, response, data, output, launches, last_url,
                   last_pick, gets, exit_code, exc, interrupted, player, titleVars,
                   timeVars, projVars>>

RandomLoop == {"rand_pick", "rand_print", "rand_run", "rand_back", "rand_except"}

\* The statements of the loop inside `try:`: the pick, the print and
\* subprocess.run.  The CalledProcessError handler and the jump back to the
\* head of the loop are outside it.
InTry(p) == p \in {"rand_pick", "rand_print", "rand_run"}

\* --random: an interrupt signal.  Inside the try statement it is the
\* KeyboardInterrupt its last handler turns into sys.exit(0); elsewhere it
\* leaves the command, and click ends the process with "Aborted!" and 1.
Interrupt ==
    /\ pc \in RandomLoop
    /\ interrupted' = TRUE
    /\ IF InTry(pc)
       THEN Finish(0, output, None)
       ELSE Finish(1, Append(output, Item("abort", ABORTED, 0, <<>>)), "KeyboardInterrupt")
    /\ UNCHANGED <<cmd, opts, response, data, launches, last_url, last_pick, gets,
                   player, titleVars, timeVars, projVars>>

\* --info NAME: the loop over data["results"], the panel, "not found".
InfiniteInfo ==
    /\ pc = "inf_info"
    /\ IF ~data.has_results
       THEN Crash("KeyError") /\ UNCHANGED last_pick
       ELSE LET m == FirstMatch(data.results, opts.info)
            IN  /\ last_pick' = m
                /\ IF m = 0
                   THEN Finish(0, Append(output, ErrorItem(NOT_FOUND)), None)
                   ELSE Finish(0, Append(output, Item("panel", "MIXTAPE", m, <<>>)), None)
    /\ UNCHANGED <<cmd, opts, response, data, launches, last_url, gets,
                   interrupted, player, titleVars, timeVars, projVars>>

\* --play NAME: the check for "results", the loop, "not found".
InfinitePlay ==
    /\ pc = "inf_play"
    /\ IF ~data.has_results
       THEN Finish(0, Append(output, ErrorItem(INVALID_FORMAT)), None)
            /\ UNCHANGED last_pick
       ELSE LET m == FirstMatch(data.results, opts.play)
            IN  /\ last_pick' = m
                /\ IF m = 0
                   THEN Finish(0, Append(output, ErrorItem(NOT_FOUND)), None)
                   ELSE /\ pc' = "inf_play_run"
                        /\ UNCHANGED <<output, exit_code, exc>>
    /\ UNCHANGED <<cmd, opts, response, data, launches, last_url, gets,
                   interrupted, player, titleVars, timeVars, projVars>>

\* --play NAME: subprocess.run(["mpv", endpoint], check=True) and its handlers.
InfinitePlayRun ==
    /\ pc = "inf_play_run"
    /\ \E outcome \in PlayerOutcomes :
          /\ player' = outcome
          /\ IF outcome = "missing"
             THEN /\ Finish(PlayerExitCode(outcome),
                            Append(output, ErrorItem(MPV_NOT_FOUND)), None)
                  /\ UNCHANGED <<launches, last_url>>
             ELSE /\ launches' = launches + 1
                  /\ last_url' = data.results[last_pick].audio_stream_endpoint
                  /\ IF outcome = "failed"
                     THEN Finish(PlayerExitCode(outcome),
                                 Append(output, ErrorItem(PLAY_FAILED)), None)
                     ELSE Finish(PlayerExitCode(outcome), output, None)
    /\ UNCHANGED <<cmd, opts, response, data, last_pick, gets, interrupted,
                   titleVars, timeVars, projVars>>

\* The listing: the check for "results", then the table (with --url, the
\* stream URLs instead of the descriptions).
InfiniteList ==
    /\ pc = "inf_list"
    /\ IF ~data.has_results
       THEN Finish(0, Append(output, ErrorItem(INVALID_FORMAT)), None)
       ELSE Finish(0,
                   Append(output,
                          Item("table", IF opts.url THEN "Stream URL" ELSE "Description",
                               0, data.results)),
                   None)
    /\ UNCHANGED <<cmd, opts, response, data, launches, last_url, last_pick, gets,
                   interrupted, player, titleVars, timeVars, projVars>>

Next ==
    \/ InvokeNow \/ InvokeSchedule \/ InvokeJson \/ InvokeInfo
    \/ InvokeStreamUrl \/ InvokePlay \/ InvokeInfinite
    \/ FetchLive \/ RenderNow \/ RenderSchedule \/ RenderJson
    \/ PlayRun
    \/ FetchMixtapes
    \/ RandPick \/ RandLaunch \/ RandPlayerExit \/ RandContinue \/ Interrupt
    \/ InfiniteInfo \/ InfinitePlay \/ InfinitePlayRun \/ InfiniteList

Spec == Init /\ [][Next]_vars

(***************************************************************************)
(* Properties of the title formatting (under SpecTitle).                   *)
(***************************************************************************)

\* C5: display (format_show_title) decodes HTML entities first and then
\* classifies the decoded text: a decoded title with "(R)" is returned
\* unchanged, any other is returned followed by one space and the live
\* glyph; exactly one case applies and the glyph is appended at most once.
C5_DecodeThenClassify ==
    display # NotYet =>
        LET d == unescape(raw_title)
            replay == Contains(d, REPLAY_MARK)
        IN  /\ IsPrefix(d, display)
            /\ replay <=> display = d
            /\ ~replay <=> display = d \o <<" ">> \o LIVE_INDICATOR
            /\ Count(display, LIVE_INDICATOR[1]) - Count(d, LIVE_INDICATOR[1])
                   = (IF replay THEN 0 ELSE 1)
            /\ (raw_title = <<"&", "#", "4", "0", ";", "R", ")">>
                    => display = <<"(", "R", ")">>)
            /\ (raw_title = <<"&", "a", "m", "p", ";", "#", "4", "0">>
                    => display = <<"&", "#", "4", "0", " ">> \o LIVE_INDICATOR)

\* The marker appears only once the title is decoded, and the title is
\* returned as a replay.
C5_Witness ==
    /\ display # NotYet
    /\ ~Contains(raw_title, REPLAY_MARK)
    /\ Contains(unescape(raw_title), REPLAY_MARK)
    /\ display = unescape(raw_title)

(***************************************************************************)
(* Properties of the projections (under SpecProject).                      *)
(***************************************************************************)
RowsOf(rows, i) == {j \in 1..Len(rows) : rows[j].slot = i}

\* C3: whatever number of next-slots the channel carries, the compact
\* projection has exactly one entry for the current show and at most 5
\* upcoming entries, never more than 6; next6 and beyond never appear.
C3_CompactAtMostSix ==
    compact # NotYet =>
        /\ Len(compact) <= 6
        /\ Cardinality(RowsOf(compact, 0)) = 1
        /\ compact[1].slot = 0
        /\ Len(compact) - 1 <= 5
        /\ \A j \in 1..Len(compact) : compact[j].slot <= 5
        /\ Len(compact) = 1 + Cardinality(Present(channel) \cap 1..5)

\* A channel with next6 and more: six entries, next6 not among them.
C3_Witness ==
    /\ compact # NotYet
    /\ Cardinality(Present(channel)) > 6
    /\ 6 \in Present(channel)
    /\ Len(compact) = 6

\* C4 as stated: the schedule has 1 + |upcoming| rows, with no cap.
C4_Original ==
    full # NotYet => Len(full) = 1 + Cardinality(Present(channel))

\* C4, amended: the schedule has one row for the current show and one for
\* every upcoming slot among next1..next17 that the document carries;
\* slots next18 and beyond are not shown.
C4_FullUpToSeventeen ==
    /\ full # NotYet =>
          /\ Len(full) = 1 + Cardinality(Present(channel) \cap 1..17)
          /\ Cardinality(RowsOf(full, 0)) = 1
          /\ \A i \in Present(channel) \cap 1..17 : Cardinality(RowsOf(full, i)) = 1
          /\ \A j \in 1..Len(full) : full[j].slot <= 17
    /\ legacy # NotYet =>
          /\ Len(legacy) = 1 + Cardinality(Present(channel) \cap 1..17)
          /\ \A j \in 1..Len(legacy) : legacy[j].slot <= 17

\* A channel with next1..next18 and more: eighteen rows.
C4_Witness ==
    /\ full # NotYet
    /\ 1..18 \subseteq Present(channel)
    /\ Len(full) = 18

(***************************************************************************)
(* Properties of the commands (under Spec).                                *)
(***************************************************************************)
Done == pc = "done"
Fetching == {"now", "schedule", "json", "infinite"}
Printed(kind) == {j \in 1..Len(output) : output[j].kind = kind}
PrintedError(text) ==
    \E j \in 1..Len(output) : output[j].kind = "error" /\ output[j].text = text
GotBody == response # Nil /\ response.kind = "body"

\* C1: in every command that fetches (now, schedule, json, infinite in any
\* option mode), a connectivity failure of the GET makes the command print
\* the "Network error" message and nothing else, launch no player and exit
\* with code 0, and no exception escapes.
C1_NetworkErrorExitsCleanly ==
    (Done /\ cmd \in Fetching /\ response # Nil /\ response.kind = "conn_error") =>
        /\ output = <<[kind |-> "error",
                       text |-> "Network error: Could not connect to the NTS API",
                       ref |-> 0, rows |-> <<>>]>>
        /\ Printed("layout") \cup Printed("table") \cup Printed("json")
              \cup Printed("panel") = {}
        /\ launches = 0
        /\ player = None
        /\ exit_code = 0
        /\ exc = None

\* infinite --random --play NAME after a connectivity failure.
C1_Witness ==
    /\ Done
    /\ cmd = "infinite"
    /\ opts.random
    /\ opts.play # <<>>
    /\ response # Nil
    /\ response.kind = "conn_error"
    /\ gets = 1
    /\ exit_code = 0

\* C2 as stated: in fetchLive and fetchCatalog a failure that is not a
\* connectivity failure (a body that is not JSON, or an HTTP error answer)
\* is never taken for the Network error: it leaves the command as an
\* unrecoverable failure, and the command does not end with exit code 0
\* after printing the "Network error" message.
C2_Original ==
    (Done /\ cmd \in Fetching /\ GotBody
          /\ (~response.parses \/ response.status = "http_error")) =>
        /\ ~PrintedError(NETWORK_ERROR)
        /\ exc # None
        /\ exit_code # 0

\* Two names that differ at most in the case of their letters.
EqualIgnoringCase(a, b) ==
    /\ Len(a) = Len(b)
    /\ \A i \in 1..Len(a) :
          \/ a[i] = b[i]
          \/ {a[i], b[i]} \in {{"p", "P"}, {"s", "S"}, {"q", "Q"}, {"z", "Z"}}

\* m is the first entry of the catalog, in its order, whose alias or title is
\* the name but for case (0: there is none).
Resolves(results, name, m) ==
    LET hit(i) == \/ EqualIgnoringCase(results[i].mixtape_alias, name)
                  \/ EqualIgnoringCase(results[i].title, name)
    IN  IF m = 0 THEN \A i \in 1..Len(results) : ~hit(i)
        ELSE /\ m \in 1..Len(results)
             /\ hit(m)
             /\ \A i \in 1..(m - 1) : ~hit(i)

\* What the command did for NAME, given where the catalog resolves it.
ActedOn(name, with_player) ==
    LET results == data.results
    IN  /\ Resolves(results, name, last_pick)
        /\ \A other \in Names :
              EqualIgnoringCase(other, name) => Resolves(results, other, last_pick)
        /\ IF last_pick = 0
           THEN /\ output = <<ErrorItem(NOT_FOUND)>>
                /\ launches = 0
                /\ exit_code = 0
                /\ exc = None
           ELSE IF with_player
           THEN /\ Printed("panel") = {}
                /\ launches <= 1
                /\ launches = 1 =>
                      last_url = results[last_pick].audio_stream_endpoint
                /\ player # None
           ELSE /\ output = <<Item("panel", "MIXTAPE", last_pick, <<>>)>>
                /\ launches = 0
                /\ exit_code = 0

CatalogReceived == Done /\ cmd = "infinite" /\ data # Nil /\ data.has_results

\* C6 as stated: infinite --play NAME and infinite --info NAME act on the
\* first catalog entry whose alias or title equals NAME ignoring case, and
\* with no such entry print "not found", launch nothing, show no panel and
\* exit 0.
C6_Original ==
    /\ (CatalogReceived /\ ~opts.random /\ opts.info_given) => ActedOn(opts.info, FALSE)
    /\ (CatalogReceived /\ ~opts.random /\ ~opts.info_given /\ opts.play_given)
          => ActedOn(opts.play, TRUE)

\* C6, amended: the same for a NAME that is not empty (an empty NAME is
\* taken as the option left out).
C6_FirstMatchIgnoringCase ==
    /\ (CatalogReceived /\ ~opts.random /\ opts.info # <<>>) => ActedOn(opts.info, FALSE)
    /\ (CatalogReceived /\ ~opts.random /\ opts.info = <<>> /\ opts.play # <<>>)
          => ActedOn(opts.play, TRUE)

\* --play PS on a catalog whose first entry has the title "ps" and whose
\* second has the alias "ps": the first is played.
C6_Witness ==
    /\ CatalogReceived
    /\ ~opts.random
    /\ opts.info = <<>>
    /\ opts.play = <<"P", "S">>
    /\ Len(data.results) = 2
    /\ data.results[1].title = <<"p", "s">>
    /\ data.results[2].mixtape_alias = <<"p", "s">>
    /\ last_pick = 1
    /\ launches = 1
    /\ last_url = "stream-3"

\* C7 as stated, for a catalog document like {"invalid": "data"}: in every
\* option mode the command prints "Invalid data format", launches no player
\* and exits 0 with no unhandled exception.
C7_Original ==
    (Done /\ cmd = "infinite" /\ GotBody /\ response.parses
          /\ response.doc = InvalidDoc) =>
        /\ PrintedError(INVALID_FORMAT)
        /\ launches = 0
        /\ exit_code = 0
        /\ exc = None

SingleShot ==
    \/ cmd = "play"
    \/ cmd = "infinite" /\ ~opts.random
\* C8: in play CHANNEL and in infinite --play NAME with a resolved entry, a
\* missing player or a player that ends with a failure status makes the
\* command report an error and exit with a code other than 0; the command
\* exits 0 only when the player ended successfully.
C8_PlayerFailureExitsNonZero ==
    (Done /\ SingleShot /\ player # None) =>
        /\ player \in {"missing", "failed"} =>
              /\ exit_code \notin {0, NoExit}
              /\ Printed("error") # {}
        /\ exit_code = 0 => player = "ok" /\ launches = 1 /\ Printed("error") = {}
        /\ player = "missing" => launches = 0

\* infinite --play NAME, the entry resolved, mpv ending with a failure.
C8_Witness ==
    /\ Done
    /\ cmd = "infinite"
    /\ last_pick > 0
    /\ player = "failed"
    /\ exit_code = 1

\* C9 as stated: in infinite --random an interrupt at any point after the
\* loop has started ends the command with exit code 0, with no error
\* reported.
C9_Original ==
    interrupted =>
        /\ Done
        /\ exit_code = 0
        /\ exc = None
        /\ Printed("error") \cup Printed("abort") = {}

UrlOf(sel) ==
    IF sel = "1" THEN "https://stream-relay-geo.ntslive.net/stream"
    ELSE "https://stream-relay-geo.ntslive.net/stream2"
\* C10: selector "1" is .../stream and "2" is .../stream2; stream-url prints
\* exactly that URL and exits 0; any other selector is a usage error with a
\* code other than 0, no URL printed and no player launched.
C10_ChannelSelector ==
    (cmd \in {"stream_url", "play"} /\ pc # "idle") =>
        IF opts.channel \in {"1", "2"}
        THEN /\ cmd = "stream_url" =>
                  /\ Done
                  /\ output = <<[kind |-> "line", text |-> UrlOf(opts.channel),
                                 ref |-> 0, rows |-> <<>>]>>
                  /\ exit_code = 0
             /\ (cmd = "play" /\ launches > 0) => last_url = UrlOf(opts.channel)
             /\ Printed("usage") = {}
        ELSE /\ Done
             /\ exit_code \notin {0, NoExit}
             /\ Printed("line") = {}
             /\ Printed("usage") # {}
             /\ launches = 0
             /\ player = None

\* play 2 with the player started on the second stream.
C10_Witness ==
    /\ cmd = "play"
    /\ opts.channel = "2"
    /\ launches = 1
    /\ last_url = "https://stream-relay-geo.ntslive.net/stream2"

\* The channels of the received document whose current show carries an art URL.
ArtChannels ==
    IF cmd = "infinite" \/ data = Nil \/ ~data.has_results
    THEN {}
    ELSE {i \in 1..Len(data.results) : data.results[i].now.background_small}

\* C11 as stated: a command invocation issues at most two GETs in all, one
\* attempt against the broadcast or mixtape endpoint followed by at most one
\* art-image fetch, also for a document with two or more channels that each
\* carry an art URL under now --art.
C11_Original ==
    /\ gets <= 2
    /\ (cmd \in Fetching /\ response # Nil) => gets >= 1

\* C11: a command invocation makes exactly one attempt against the broadcast
\* or mixtape endpoint, never repeated, also after a failure; only now --art
\* adds GETs after it, one art-image fetch for each channel of the document
\* whose current show carries an art URL, so the total is at most one plus
\* the number of such channels; the commands that do not fetch issue none.
C11_OneFetchThenArtPerChannel ==
    /\ cmd \notin Fetching => gets = 0
    /\ response = Nil => gets = 0
    /\ (cmd \in Fetching /\ response # Nil) => gets >= 1
    /\ ~(cmd = "now" /\ opts.art) => gets <= 1
    /\ gets <= 1 + Cardinality(ArtChannels)
    /\ (Done /\ cmd = "now" /\ opts.art /\ exc = None /\ data # Nil)
          => gets = 1 + Cardinality(ArtChannels)

\* now --art on a document of two channels that both carry an art URL: the
\* endpoint GET and two art-image GETs.
C11_Witness ==
    /\ Done
    /\ cmd = "now"
    /\ opts.art
    /\ data # Nil
    /\ data.has_results
    /\ Len(data.results) = 2
    /\ Cardinality(ArtChannels) = 2
    /\ gets = 3

\* The clock reading of a text "HH:MM", in minutes of the day.
Clock(hhmm) == Number(SubSeq(hhmm, 1, 2)) * 60 + Number(SubSeq(hhmm, 4, 5))

DigitChars == {DIGITS[i] : i \in 1..Len(DIGITS)}

\* A text of exactly five characters HH:MM, hour 00..23 and minute 00..59.
IsHHMM(t) ==
    /\ Len(t) = 5
    /\ \A i \in {1, 2, 4, 5} : t[i] \in DigitChars
    /\ t[3] = ":"
    /\ Number(SubSeq(t, 1, 2)) \in 0..23
    /\ Number(SubSeq(t, 4, 5)) \in 0..59

\* The places of a text where " - " starts.
Separators(t) == {i \in 1..(Len(t) - 2) : SubSeq(t, i, i + 2) = <<" ", "-", " ">>}

\* The half shows the instant of the timestamp on the local clock: it is
\* ahead of the UTC clock reading written in the timestamp by the zone's
\* offset (by an hour more when the instant is in summer time).
ShowsLocal(half, timestamp) ==
    \E dst \in {0, 60} :
        /\ dst = 60 => tz.dst_from # NoDst
        /\ (Clock(half) - Clock(SubSeq(timestamp, 12, 16)) - tz.utcoffset - dst)
               % (24 * 60) = 0

\* C12: for every pair of UTC timestamps with a trailing Z and every local
\* zone offset, format_time_range returns a text with exactly one " - "
\* whose two halves are each five characters HH:MM, zero-padded, hour 00..23
\* and minute 00..59 with one colon; the first half is format_time of the
\* start and the second format_time of the end, each the local clock reading
\* of its instant, whether or not the end follows the start.
C12_RangeOfTwoLocalTimes ==
    time_range # NotYet =>
        LET first == SubSeq(time_range, 1, 5)
            second == SubSeq(time_range, 9, Len(time_range))
        IN  /\ Separators(time_range) = {6}
            /\ IsHHMM(first)
            /\ IsHHMM(second)
            /\ Count(first, ":") = 1
            /\ Count(second, ":") = 1
            /\ first = format_time(start_timestamp)
            /\ second = format_time(end_timestamp)
            /\ ShowsLocal(first, start_timestamp)
            /\ ShowsLocal(second, end_timestamp)

\* An end that precedes its start, in a zone of a fractional offset where
\* the local day differs from the UTC day and an hour below ten is padded.
C12_Witness ==
    /\ time_range = <<"0", "5", ":", "3", "0", " ", "-", " ", "0", "5", ":", "0", "0">>
    /\ start_timestamp = Timestamp((14 * 24 + 23) * 60 + 45)
    /\ end_timestamp = Timestamp((14 * 24 + 23) * 60 + 15)
    /\ tz.utcoffset = 345

\* The show a row was made from.
ShowOf(row) == IF row.slot = 0 THEN channel.now ELSE channel.next[row.slot]

\* How a row of the schedule table presents its show: live when the title
\* ends with the live indicator.
Tag(row) ==
    LET n == Len(row.title)
    IN  IF n >= 2 /\ SubSeq(row.title, n - 1, n) = <<" ">> \o LIVE_INDICATOR
        THEN "LIVE" ELSE "REPLAY"

\* C13 as stated: in the full schedule the entry of the current show is
\* always tagged LIVE, whatever its title, and every upcoming entry is tagged
\* REPLAY exactly when its title contains "(R)" and LIVE otherwise.
C13_Original ==
    /\ full # NotYet =>
          /\ Tag(full[1]) = "LIVE"
          /\ \A j \in 2..Len(full) :
                Tag(full[j]) = "REPLAY" <=> Contains(full[j].title, REPLAY_MARK)
    /\ legacy # NotYet =>
          /\ legacy[1].type = "LIVE"
          /\ \A j \in 2..Len(legacy) :
                legacy[j].type = "REPLAY" <=> Contains(legacy[j].title, REPLAY_MARK)

\* The rows of a projection are in upstream order, one for the current show
\* and one for every present slot up to the cap, each with the title and the
\* time range of its own show.
InUpstreamOrder(rows, cap) ==
    /\ rows[1].slot = 0
    /\ \A j \in 1..(Len(rows) - 1) : rows[j].slot < rows[j + 1].slot
    /\ {rows[j].slot : j \in 1..Len(rows)} = {0} \cup (Present(channel) \cap 1..cap)
    /\ \A j \in 1..Len(rows) :
          /\ rows[j].title = format_show_title(ShowOf(rows[j]).broadcast_title)
          /\ rows[j].time = format_time_range(ShowOf(rows[j]))

\* C14: the panel of the now view and the schedule table come out in upstream
\* order: the current show first, then the upcoming slots by increasing slot
\* index; every upcoming slot within the view's cap that the document has
\* yields exactly one entry with its own title and time range, also when
\* slots repeat each other or are out of chronological order; nothing is
\* sorted, merged or dropped.
C14_UpstreamOrderKept ==
    /\ compact # NotYet => InUpstreamOrder(compact, COMPACT_SLOTS)
    /\ full # NotYet => InUpstreamOrder(full, SCHEDULE_SLOTS)

\* A schedule table with two equal rows from different slots and a row that
\* starts before the row above it, shown on a clock that is not UTC.
C14_Witness ==
    /\ full # NotYet
    /\ compact # NotYet
    /\ tz # UTC
    /\ \E j, k \in 2..Len(full) :
          /\ j < k
          /\ full[j].title = full[k].title
          /\ full[j].time = full[k].time
    /\ \E j \in 2..(Len(full) - 1) :
          ShowOf(full[j + 1]).start_timestamp = Timestamp(SlotStart("repeat", 0))
    /\ \E j \in 3..Len(compact) :
          /\ compact[j].title = compact[2].title
          /\ compact[j].time = compact[2].time

\* infinite --random holding a catalog that is not empty.
RandomMode ==
    /\ cmd = "infinite"
    /\ opts.random
    /\ data # Nil
    /\ data.has_results
    /\ data.results # <<>>

\* C15 as stated: in infinite --random with a catalog that is not empty the
\* loop never ends on its own: after every exit of the player, successful or
\* not, the command picks a member of the catalog and launches the player on
\* its stream URL again; the only ways out are an interrupt, with exit code
\* 0, and a missing player executable, with exit code 1; the --info, --play
\* and listing branches are never reached.
C15_Original ==
    RandomMode =>
        /\ pc \notin {"inf_info", "inf_play", "inf_play_run", "inf_list"}
        /\ Printed("panel") \cup Printed("table") = {}
        /\ pc \in {"rand_print", "rand_run", "rand_back", "rand_except"} =>
              last_pick \in 1..Len(data.results)
        /\ pc \in {"rand_run", "rand_back", "rand_except"} =>
              /\ launches > 0
              /\ last_url = data.results[last_pick].audio_stream_endpoint
        /\ (pc \in {"rand_back", "rand_except"} /\ launches < MaxLaunches)
              => ENABLED RandContinue
        /\ Done => \/ interrupted /\ exit_code = 0
                   \/ ~interrupted /\ player = "missing" /\ exit_code = 1
====
